---- MODULE Spec2Model ----
(***************************************************************************)
(* Model of the page allocator Mmap (src/src/mmap.rs) over an operating    *)
(* system mapping table, and of the ZeroHeap decorator (src/src/core.rs)   *)
(* over a wrapped allocator.                                               *)
(*                                                                         *)
(* Addresses and lengths are bytes.  The OS maps and unmaps whole pages,   *)
(* so the mapping table is the set of mapped page numbers.  Every OS call  *)
(* is one atomic step; the code between two OS calls of a function runs in *)
(* the step of the call that precedes it.                                  *)
(***************************************************************************)
EXTENDS Integers, Sequences, FiniteSets

\* ------------------------------------------------------------------ bounds
\* Width of usize in bits (64 on the real targets).
UsizeBits == 5
\* The OS places mappings in pages 1..MaxPage (page 0 holds the null address).
MaxPage == 10
\* Number of OS calls the environment lets fail in one behaviour.
MaxFail == 1
\* Threads sharing the one Mmap instance.
NThreads == 2
\* Tags a client of ZeroHeap holds at once.
MaxTags == 2
\* Largest size a client of ZeroHeap asks for.
MaxZSize == 1
\* The wrapped allocator of ZeroHeap returns one of the first MaxSlot
\* multiples of the alignment.
MaxSlot == 2

\* Largest request, in pages, when several threads use the allocator at
\* once.
MaxMTPages == 2

\* ------------------------------------------------------- program constants
\* Mmap.pagesize, queried once in Mmap::new.
PageSize == 2

UsizeMod == 2 ^ UsizeBits
IsizeMax == 2 ^ (UsizeBits - 1) - 1

Threads == 1 .. NThreads
Pages == 1 .. MaxPage

Max(a, b) == IF a >= b THEN a ELSE b

\* ------------------------------------------------------ core::alloc::Layout
\* Alignments a Layout can carry: the powers of two of the address width.
Pow2s == {2 ^ k : k \in 0 .. (UsizeBits - 1)}

\* Layout::from_size_align accepts size and align when align is a power of
\* two and size rounded up to align does not exceed isize::MAX.
LayoutOk(size, align) == align \in Pow2s /\ size <= IsizeMax - (align - 1)

Layout(size, align) == [size |-> size, align |-> align]

\* Every Layout value a caller can build.
Layouts == {l \in [size : 0 .. IsizeMax, align : Pow2s] : LayoutOk(l.size, l.align)}

NoLayout == Layout(0, 1)

\* Mutant of align_to: raises the alignment without checking that the size
\* still fits (Layout::from_size_align_unchecked).
align_to_unchecked(l, align) ==
    [ok |-> TRUE, layout |-> Layout(l.size, Max(l.align, align))]

\* Layout::align_to(align): the layout with the larger of the two alignments,
\* or LayoutError when the size no longer fits.
align_to(l, align) ==
    LET a == Max(l.align, align)
    IN IF LayoutOk(l.size, a)
       THEN [ok |-> TRUE, layout |-> Layout(l.size, a)]
       ELSE [ok |-> FALSE, layout |-> NoLayout]


\* Mutant of pad_to_align: leaves the size as requested.
pad_to_align_skip(l) == l

\* Mutant of pad_to_align: rounds up to the next multiple even when the size
\* is one already.
pad_to_align_next(l) ==
    Layout(l.size + l.align - (l.size % l.align), l.align)

\* Layout::pad_to_align(): size rounded up to a multiple of align,
\* computed as (size + align - 1) & !(align - 1) in usize.
pad_to_align(l) ==
    LET s == (l.size + l.align - 1) % UsizeMod
    IN Layout(s - (s % l.align), l.align)


\* Mutant of dangling: NonNull::<u8>::dangling(), address 1 for every layout.
dangling_u8(l) == 1

\* Layout::dangling(): the non-null address equal to the alignment.
dangling(l) == l.align


\* ------------------------------------------------------------ NonNull<u8>
\* Mutant of is_aligned_to: tests twice the alignment.
is_aligned_to_twice(p, align) == p % (2 * align) = 0

\* NonNull::is_aligned_to(align)
is_aligned_to(p, align) == p % align = 0


\* Mutant of align_offset: distance back to the previous multiple of align.
align_offset_back(p, align) == p % align

\* NonNull<u8>::align_offset(align): bytes to the next multiple of align.
align_offset(p, align) == (align - (p % align)) % align

\* usize::checked_sub / checked_add; -1 stands for None.
checked_sub(a, b) == IF a >= b THEN a - b ELSE -1
checked_add(a, b) == IF a + b < UsizeMod THEN a + b ELSE -1

\* -------------------------------------------------------------- OS model
\* Pages touched by the byte range [p, p + len).
PagesOf(p, len) ==
    IF len = 0 THEN {} ELSE (p \div PageSize) .. ((p + len - 1) \div PageSize)

\* Mutant of FreeAt: the kernel places the mapping at any page-aligned
\* address, over what is already mapped there (as MAP_FIXED would).
FreeAt_fixed(table, len) ==
    {p \in {pg * PageSize : pg \in Pages} : PagesOf(p, len) \subseteq Pages}

\* Addresses at which mmap can place a fresh mapping of len bytes, given
\* the mapping table: page aligned, every page free.
FreeAt(table, len) ==
    {p \in {pg * PageSize : pg \in Pages} :
        /\ PagesOf(p, len) \subseteq Pages
        /\ PagesOf(p, len) \cap table = {}}

\* Errors of mmap(2): a zero length is EINVAL; otherwise the kernel may
\* refuse for lack of memory or of locked-memory quota.
MapErrnos(len) == IF len = 0 THEN {"EINVAL"} ELSE {"ENOMEM", "EAGAIN"}

\* Errors of munmap(2): a zero length is EINVAL; splitting a mapping may
\* exceed the process's mapping count (ENOMEM).
UnmapErrnos(len) == IF len = 0 THEN {"EINVAL"} ELSE {"ENOMEM"}

\* ----------------------------------------------------------------- state
VARIABLES
    mapped,      \* OS mapping table: the set of mapped pages
    fails,       \* OS calls that have failed so far
    pc,          \* per thread: position in alloc / free
    req,         \* per thread: the layout alloc was called with
    layout,      \* per thread: alloc's normalized layout
    ptr,         \* per thread: `ptr` of alloc, then `alloc` of alloc_slow/trim
    alloc_size,  \* per thread: `alloc_size` of alloc_slow
    align_ost,   \* per thread: `align_ost` of trim
    trim_end,    \* per thread: `trim_end` of trim
    res,         \* per thread: the value alloc / free returned
    calls,       \* per thread: OS calls made by the running operation
    mem,         \* per thread: the Mem passed to free
    before,      \* per thread: mapping table when alloc was entered
    ztags,       \* ZeroHeap client: Tags held
    zop,         \* ZeroHeap: the last operation and its argument
    zres,        \* ZeroHeap: the value the last operation returned
    zcalls,      \* ZeroHeap: calls the last operation made into the wrapped T
    zinner       \* ZeroHeap: what the wrapped T returned to the last operation

mvars == <<mapped, fails, pc, req, layout, ptr, alloc_size, align_ost,
           trim_end, res, calls, mem, before>>
zvars == <<ztags, zop, zres, zcalls, zinner>>
vars == <<mapped, fails, pc, req, layout, ptr, alloc_size, align_ost,
          trim_end, res, calls, mem, before, ztags, zop, zres, zcalls,
          zinner>>

\* -------------------------------------------------- Result<Mem, MmapErr>
NoRes == [kind |-> "None", ptr |-> 0, layout |-> NoLayout, errno |-> ""]
\* Ok(Mem { ptr, layout })
OkMem(p, l) == [kind |-> "Ok", ptr |-> p, layout |-> l, errno |-> ""]
\* Ok(()) of free
OkUnit == [kind |-> "Unit", ptr |-> 0, layout |-> NoLayout, errno |-> ""]

\* Mutant of ErrOs: drops the errno and reports ENOMEM for every OS failure.
ErrOs_nomem(e) == [kind |-> "Os", ptr |-> 0, layout |-> NoLayout, errno |-> "ENOMEM"]

\* MmapErr::Os(errno), built by From<Errno>
ErrOs(e) == [kind |-> "Os", ptr |-> 0, layout |-> NoLayout, errno |-> e]
\* MmapErr::Overflow, MmapErr::NoAlign, MmapErr::Layout
ErrKind(k) == [kind |-> k, ptr |-> 0, layout |-> NoLayout, errno |-> ""]

\* struct Mem { ptr, layout }
Mem(p, l) == [ptr |-> p, layout |-> l]
NoMem == Mem(0, NoLayout)

\* One OS call in a thread's log: for map, ptr is the address returned
\* (0 on failure); for unmap, ptr is the address passed.
Call(op, p, len, e) == [op |-> op, ptr |-> p, len |-> len, errno |-> e]

\* struct Tag { ptr, layout }, built by Tag::new
Tag(p, l) == [ptr |-> p, layout |-> l]
NoTag == Tag(0, NoLayout)

\* Result<Tag, AllocError> of Alloc::alloc, and () of Alloc::free
ZRes(k, tag) == [kind |-> k, ptr |-> tag.ptr, layout |-> tag.layout]

\* A call of a method of trait Alloc with its argument: alloc(layout) or
\* free(tag).
ZCall(fn, l, p) == [fn |-> fn, layout |-> l, ptr |-> p]

Init ==
    /\ mapped = {}
    /\ fails = 0
    /\ pc = [t \in Threads |-> "idle"]
    /\ req = [t \in Threads |-> NoLayout]
    /\ layout = [t \in Threads |-> NoLayout]
    /\ ptr = [t \in Threads |-> 0]
    /\ alloc_size = [t \in Threads |-> 0]
    /\ align_ost = [t \in Threads |-> 0]
    /\ trim_end = [t \in Threads |-> 0]
    /\ res = [t \in Threads |-> NoRes]
    /\ calls = [t \in Threads |-> <<>>]
    /\ mem = [t \in Threads |-> NoMem]
    /\ before = [t \in Threads |-> {}]
    /\ ztags = <<>>
    /\ zop = ZCall("none", NoLayout, 0)
    /\ zres = ZRes("None", NoTag)
    /\ zcalls = <<>>
    /\ zinner = ZRes("None", NoTag)

\* ------------------------------------------------------------ OS calls
\* What map(len) can return in the current state: any free page-aligned
\* address, or an errno.  A failure the kernel is not forced into (zero
\* length, no room) is an injected one and counts against MaxFail.
MapOutcomes(len) ==
    {[ptr |-> p, errno |-> "", inj |-> 0] :
        p \in {a \in FreeAt(mapped, len) : len > 0}}
    \cup
    {[ptr |-> 0, errno |-> e, inj |-> 0] :
        e \in {x \in MapErrnos(len) :
                 len = 0 \/ (x = "ENOMEM" /\ FreeAt(mapped, len) = {})}}
    \cup
    {[ptr |-> 0, errno |-> e, inj |-> 1] :
        e \in {x \in MapErrnos(len) : len > 0 /\ fails < MaxFail}}

\* The two assertions at the head of Mmap::unmap.
UnmapAsserts(p, len) == is_aligned_to(p, PageSize) /\ len % PageSize = 0

\* What munmap(p, len) can return: success, or an errno.
UnmapOutcomes(p, len) ==
    {[errno |-> "", inj |-> 0] : x \in {y \in {0} : len > 0}}
    \cup
    {[errno |-> e, inj |-> 0] : e \in {x \in UnmapErrnos(len) : len = 0}}
    \cup
    {[errno |-> e, inj |-> 1] :
        e \in {x \in UnmapErrnos(len) : len > 0 /\ fails < MaxFail}}

\* The mapping table after a successful munmap(p, len).
Unmapped(table, p, len) == table \ PagesOf(p, len)

\* The log `calls` and the snapshot `before` record what an operation did for
\* the properties that read them.  A behaviour that starts with them switched
\* off (NoLog, NoSnap) keeps them off.
NoLog == <<Call("off", 0, 0, "")>>
NoSnap == {-1}
\* The log with one more call / at the start of an operation.
Logged(log, call) == IF log = NoLog THEN NoLog ELSE Append(log, call)
Cleared(log) == IF log = NoLog THEN NoLog ELSE <<>>
\* The snapshot taken at the entry of alloc / dropped at the return.
Snapshot(snap) == IF snap = NoSnap THEN NoSnap ELSE mapped
Snapshot0(snap) == IF snap = NoSnap THEN NoSnap ELSE {}

\* --------------------------------------------------------- Mmap::alloc
\* alloc, line 117: normalize the layout; a LayoutError returns at once.
Alloc(t, l) ==
    /\ pc[t] = "idle"
    /\ LET n == align_to(l, PageSize)
       IN IF n.ok
          THEN /\ layout' = [layout EXCEPT ![t] = pad_to_align(n.layout)]
               /\ pc' = [pc EXCEPT ![t] = "map"]
               /\ res' = [res EXCEPT ![t] = NoRes]
          ELSE /\ layout' = [layout EXCEPT ![t] = NoLayout]
               /\ pc' = [pc EXCEPT ![t] = "alloc_done"]
               /\ res' = [res EXCEPT ![t] = ErrKind("Layout")]
    /\ req' = [req EXCEPT ![t] = l]
    /\ calls' = [calls EXCEPT ![t] = Cleared(@)]
    /\ before' = [before EXCEPT ![t] = Snapshot(@)]
    /\ UNCHANGED <<mapped, fails, ptr, alloc_size, align_ost, trim_end, mem>>
    /\ UNCHANGED zvars

\* alloc, lines 118-120: the first map; an aligned address is returned as is.
AllocMap(t) ==
    /\ pc[t] = "map"
    /\ \E o \in MapOutcomes(layout[t].size) :
        /\ fails' = fails + o.inj
        /\ calls' = [calls EXCEPT ![t] =
                        Logged(@, Call("map", o.ptr, layout[t].size, o.errno))]
        /\ IF o.errno # ""
           THEN /\ res' = [res EXCEPT ![t] = ErrOs(o.errno)]
                /\ pc' = [pc EXCEPT ![t] = "alloc_done"]
                /\ UNCHANGED <<mapped, ptr>>
           ELSE /\ mapped' = mapped \cup PagesOf(o.ptr, layout[t].size)
                /\ ptr' = [ptr EXCEPT ![t] = o.ptr]
                /\ IF is_aligned_to(o.ptr, layout[t].align)
                   THEN /\ res' = [res EXCEPT ![t] = OkMem(o.ptr, layout[t])]
                        /\ pc' = [pc EXCEPT ![t] = "alloc_done"]
                   ELSE /\ res' = res
                        /\ pc' = [pc EXCEPT ![t] = "unmap"]
    /\ UNCHANGED <<req, layout, alloc_size, align_ost, trim_end, mem, before>>
    /\ UNCHANGED zvars


\* Mutant of SlowPad: pads by one page less than the alignment needs.
SlowPad_short(l) == checked_sub(l.align, 2 * PageSize)

\* Mutant of SlowPad: pads by the whole alignment.
SlowPad_no_sub(l) == l.align

\* alloc_slow, line 133: `pad`, the extra bytes of the padded request; a
\* negative value stands for the panic of unwrap().
SlowPad(l) == checked_sub(l.align, PageSize)

\* alloc, line 122, then alloc_slow, lines 133-134: release the unaligned
\* first mapping and compute the padded size.
AllocUnmap(t) ==
    /\ pc[t] = "unmap"
    /\ IF ~UnmapAsserts(ptr[t], layout[t].size)
       THEN /\ pc' = [pc EXCEPT ![t] = "panic"]
            /\ UNCHANGED <<mapped, fails, calls, res, alloc_size>>
       ELSE \E o \in UnmapOutcomes(ptr[t], layout[t].size) :
            /\ fails' = fails + o.inj
            /\ calls' = [calls EXCEPT ![t] =
                   Logged(@, Call("unmap", ptr[t], layout[t].size, o.errno))]
            /\ IF o.errno # ""
               THEN /\ res' = [res EXCEPT ![t] = ErrOs(o.errno)]
                    /\ pc' = [pc EXCEPT ![t] = "alloc_done"]
                    /\ UNCHANGED <<mapped, alloc_size>>
               ELSE /\ mapped' = Unmapped(mapped, ptr[t], layout[t].size)
                    /\ LET pad == SlowPad(layout[t])
                           size == IF pad < 0 THEN -1
                                   ELSE checked_add(layout[t].size, pad)
                       IN IF pad < 0
                          THEN /\ pc' = [pc EXCEPT ![t] = "panic"]
                               /\ UNCHANGED <<res, alloc_size>>
                          ELSE IF size < 0
                          THEN /\ res' = [res EXCEPT ![t] = ErrKind("Overflow")]
                               /\ pc' = [pc EXCEPT ![t] = "alloc_done"]
                               /\ UNCHANGED alloc_size
                          ELSE /\ alloc_size' = [alloc_size EXCEPT ![t] = size]
                               /\ pc' = [pc EXCEPT ![t] = "slow_map"]
                               /\ UNCHANGED res
    /\ UNCHANGED <<req, layout, ptr, align_ost, trim_end, mem, before>>
    /\ UNCHANGED zvars


\* Mutant of AfterLead: returns Ok(aligned) without the trailing unmap.
AfterLead_no_tail(t, p, te) ==
    /\ pc' = [pc EXCEPT ![t] = "alloc_done"]
    /\ res' = [res EXCEPT ![t] = OkMem(p, layout[t])]

\* Where trim goes after its checked arithmetic: the leading unmap, the
\* trailing unmap, or straight to Ok(aligned).
AfterLead(t, p, te) ==
    IF te > 0
    THEN /\ pc' = [pc EXCEPT ![t] = "trim_end"]
         /\ UNCHANGED res
    ELSE /\ pc' = [pc EXCEPT ![t] = "alloc_done"]
         /\ res' = [res EXCEPT ![t] = OkMem(p, layout[t])]

\* alloc_slow, line 135, then trim, lines 80-99: the padded map and the
\* offsets of the aligned block inside it.
AllocSlow(t) ==
    /\ pc[t] = "slow_map"
    /\ \E o \in MapOutcomes(alloc_size[t]) :
        /\ fails' = fails + o.inj
        /\ calls' = [calls EXCEPT ![t] =
                        Logged(@, Call("map", o.ptr, alloc_size[t], o.errno))]
        /\ IF o.errno # ""
           THEN /\ res' = [res EXCEPT ![t] = ErrOs(o.errno)]
                /\ pc' = [pc EXCEPT ![t] = "alloc_done"]
                /\ UNCHANGED <<mapped, ptr, align_ost, trim_end>>
           ELSE /\ mapped' = mapped \cup PagesOf(o.ptr, alloc_size[t])
                /\ ptr' = [ptr EXCEPT ![t] = o.ptr]
                /\ LET ao == align_offset(o.ptr, layout[t].align)
                       d  == checked_sub(alloc_size[t], ao)
                       te == IF d < 0 THEN -1 ELSE checked_sub(d, layout[t].size)
                   IN IF te < 0
                      THEN /\ res' = [res EXCEPT ![t] = ErrKind("NoAlign")]
                           /\ pc' = [pc EXCEPT ![t] = "alloc_done"]
                           /\ UNCHANGED <<align_ost, trim_end>>
                      ELSE /\ align_ost' = [align_ost EXCEPT ![t] = ao]
                           /\ trim_end' = [trim_end EXCEPT ![t] = te]
                           /\ IF ao > 0
                              THEN /\ pc' = [pc EXCEPT ![t] = "trim_lead"]
                                   /\ UNCHANGED res
                              ELSE AfterLead(t, o.ptr + ao, te)
    /\ UNCHANGED <<req, layout, alloc_size, mem, before>>
    /\ UNCHANGED zvars

\* trim, lines 99-101: release the leading slack [alloc, aligned).
TrimLead(t) ==
    /\ pc[t] = "trim_lead"
    /\ IF ~UnmapAsserts(ptr[t], align_ost[t])
       THEN /\ pc' = [pc EXCEPT ![t] = "panic"]
            /\ UNCHANGED <<mapped, fails, calls, res>>
       ELSE \E o \in UnmapOutcomes(ptr[t], align_ost[t]) :
            /\ fails' = fails + o.inj
            /\ calls' = [calls EXCEPT ![t] =
                   Logged(@, Call("unmap", ptr[t], align_ost[t], o.errno))]
            /\ IF o.errno # ""
               THEN /\ res' = [res EXCEPT ![t] = ErrOs(o.errno)]
                    /\ pc' = [pc EXCEPT ![t] = "alloc_done"]
                    /\ UNCHANGED mapped
               ELSE /\ mapped' = Unmapped(mapped, ptr[t], align_ost[t])
                    /\ AfterLead(t, ptr[t] + align_ost[t], trim_end[t])
    /\ UNCHANGED <<req, layout, ptr, alloc_size, align_ost, trim_end, mem, before>>
    /\ UNCHANGED zvars


\* Mutant of TrimEndPtr: `end` taken at `aligned`, without layout.size().
TrimEndPtr_no_size(t) == ptr[t] + align_ost[t]

\* trim, line 109: `end`, the first byte after the retained block.
TrimEndPtr(t) == ptr[t] + align_ost[t] + layout[t].size

\* trim, lines 102-112: release the trailing slack [end, alloc + alloc_size).
TrimTail(t) ==
    /\ pc[t] = "trim_end"
    /\ IF ~UnmapAsserts(TrimEndPtr(t), trim_end[t])
       THEN /\ pc' = [pc EXCEPT ![t] = "panic"]
            /\ UNCHANGED <<mapped, fails, calls, res>>
       ELSE \E o \in UnmapOutcomes(TrimEndPtr(t), trim_end[t]) :
            /\ fails' = fails + o.inj
            /\ calls' = [calls EXCEPT ![t] =
                   Logged(@, Call("unmap", TrimEndPtr(t), trim_end[t], o.errno))]
            /\ IF o.errno # ""
               THEN /\ res' = [res EXCEPT ![t] = ErrOs(o.errno)]
                    /\ UNCHANGED mapped
               ELSE /\ res' = [res EXCEPT ![t] =
                                  OkMem(ptr[t] + align_ost[t], layout[t])]
                    /\ mapped' = Unmapped(mapped, TrimEndPtr(t), trim_end[t])
            /\ pc' = [pc EXCEPT ![t] = "alloc_done"]
    /\ UNCHANGED <<req, layout, ptr, alloc_size, align_ost, trim_end, mem, before>>
    /\ UNCHANGED zvars

\* The thread's locals once an operation is over.
Reset(t) ==
    /\ pc' = [pc EXCEPT ![t] = "idle"]
    /\ req' = [req EXCEPT ![t] = NoLayout]
    /\ layout' = [layout EXCEPT ![t] = NoLayout]
    /\ ptr' = [ptr EXCEPT ![t] = 0]
    /\ alloc_size' = [alloc_size EXCEPT ![t] = 0]
    /\ align_ost' = [align_ost EXCEPT ![t] = 0]
    /\ trim_end' = [trim_end EXCEPT ![t] = 0]
    /\ res' = [res EXCEPT ![t] = NoRes]
    /\ calls' = [calls EXCEPT ![t] = Cleared(@)]
    /\ mem' = [mem EXCEPT ![t] = NoMem]
    /\ before' = [before EXCEPT ![t] = Snapshot0(@)]

\* The caller of alloc got an Err: it holds nothing to free.
AllocFailed(t) ==
    /\ pc[t] = "alloc_done"
    /\ res[t].kind # "Ok"
    /\ Reset(t)
    /\ UNCHANGED <<mapped, fails>>
    /\ UNCHANGED zvars

\* ---------------------------------------------------------- Mmap::free
\* The caller passes the Mem it got from alloc to free.
Free(t) ==
    /\ pc[t] = "alloc_done"
    /\ res[t].kind = "Ok"
    /\ mem' = [mem EXCEPT ![t] = Mem(res[t].ptr, res[t].layout)]
    /\ calls' = [calls EXCEPT ![t] = Cleared(@)]
    /\ pc' = [pc EXCEPT ![t] = "free"]
    /\ UNCHANGED <<mapped, fails, req, layout, ptr, alloc_size, align_ost,
                   trim_end, res, before>>
    /\ UNCHANGED zvars

\* free, line 143: unmap(m.ptr, m.layout.size()).map_err(Into::into)
FreeUnmap(t) ==
    /\ pc[t] = "free"
    /\ IF ~UnmapAsserts(mem[t].ptr, mem[t].layout.size)
       THEN /\ pc' = [pc EXCEPT ![t] = "panic"]
            /\ UNCHANGED <<mapped, fails, calls, res>>
       ELSE \E o \in UnmapOutcomes(mem[t].ptr, mem[t].layout.size) :
            /\ fails' = fails + o.inj
            /\ calls' = [calls EXCEPT ![t] =
                   Logged(@, Call("unmap", mem[t].ptr, mem[t].layout.size, o.errno))]
            /\ IF o.errno # ""
               THEN /\ res' = [res EXCEPT ![t] = ErrOs(o.errno)]
                    /\ UNCHANGED mapped
               ELSE /\ res' = [res EXCEPT ![t] = OkUnit]
                    /\ mapped' = Unmapped(mapped, mem[t].ptr, mem[t].layout.size)
            /\ pc' = [pc EXCEPT ![t] = "free_done"]
    /\ UNCHANGED <<req, layout, ptr, alloc_size, align_ost, trim_end, mem, before>>
    /\ UNCHANGED zvars

\* free has returned; the thread goes on to its next request.
FreeDone(t) ==
    /\ pc[t] = "free_done"
    /\ Reset(t)
    /\ UNCHANGED <<mapped, fails>>
    /\ UNCHANGED zvars

\* One step of thread t in the page allocator.
MmapStep(t) ==
    \/ \E l \in Layouts : Alloc(t, l)
    \/ AllocMap(t)
    \/ AllocUnmap(t)
    \/ AllocSlow(t)
    \/ TrimLead(t)
    \/ TrimTail(t)
    \/ AllocFailed(t)
    \/ Free(t)
    \/ FreeUnmap(t)
    \/ FreeDone(t)

\* One caller using the allocator: each alloc is followed by its free.
Next == \E t \in {1} : MmapStep(t)

Spec == Init /\ [][Next]_vars

\* Layouts requested when several threads use the allocator at once: whole
\* pages, of every alignment from the page size up.
MTLayouts ==
    {l \in Layouts : /\ l.size \in {k * PageSize : k \in 1 .. MaxMTPages}
                     /\ l.align >= PageSize}

\* One step of thread t when the threads share the allocator.
MTStep(t) ==
    \/ \E l \in MTLayouts : Alloc(t, l)
    \/ AllocMap(t)
    \/ AllocUnmap(t)
    \/ AllocSlow(t)
    \/ TrimLead(t)
    \/ TrimTail(t)
    \/ AllocFailed(t)
    \/ Free(t)
    \/ FreeUnmap(t)
    \/ FreeDone(t)

\* The threads that race on the one Mmap: alloc and free take &self.  The
\* properties checked of them are about pairs of threads.
Racers == {t \in Threads : t <= 2}

\* Their OS calls interleave in any order.
NextMT == \E t \in Racers : MTStep(t)

\* As Init, with the per-operation log and snapshot switched off.  The
\* failure budget starts used up: the only OS failures of the race are the
\* ones the kernel is forced into (no room left for the mapping).
InitMT ==
    /\ mapped = {}
    /\ fails = MaxFail
    /\ pc = [t \in Threads |-> "idle"]
    /\ req = [t \in Threads |-> NoLayout]
    /\ layout = [t \in Threads |-> NoLayout]
    /\ ptr = [t \in Threads |-> 0]
    /\ alloc_size = [t \in Threads |-> 0]
    /\ align_ost = [t \in Threads |-> 0]
    /\ trim_end = [t \in Threads |-> 0]
    /\ res = [t \in Threads |-> NoRes]
    /\ calls = [t \in Threads |-> NoLog]
    /\ mem = [t \in Threads |-> NoMem]
    /\ before = [t \in Threads |-> NoSnap]
    /\ ztags = <<>>
    /\ zop = ZCall("none", NoLayout, 0)
    /\ zres = ZRes("None", NoTag)
    /\ zcalls = <<>>
    /\ zinner = ZRes("None", NoTag)

SpecMT == InitMT /\ [][NextMT]_vars

\* ------------------------------------------ Mmap of src/src/lib.rs
\* The crate root keeps an earlier Mmap: alloc takes the layout as given
\* (no normalization) behind an assertion, and munmap asserts only the
\* alignment of the pointer.  Its positions are the "lib_" values of pc.

\* The assertion at the head of Mmap::munmap of lib.rs.
MunmapAsserts(p) == is_aligned_to(p, PageSize)

\* lib.rs alloc, line 133: assert!(self.pagesize <= layout.align()).
LibAlloc(t, l) ==
    /\ pc[t] = "idle"
    /\ IF PageSize <= l.align
       THEN pc' = [pc EXCEPT ![t] = "lib_map"]
       ELSE pc' = [pc EXCEPT ![t] = "panic"]
    /\ req' = [req EXCEPT ![t] = l]
    /\ layout' = [layout EXCEPT ![t] = l]
    /\ res' = [res EXCEPT ![t] = NoRes]
    /\ calls' = [calls EXCEPT ![t] = <<>>]
    /\ before' = [before EXCEPT ![t] = mapped]
    /\ UNCHANGED <<mapped, fails, ptr, alloc_size, align_ost, trim_end, mem>>
    /\ UNCHANGED zvars

\* lib.rs alloc, lines 134-137: the first mmap.
LibAllocMap(t) ==
    /\ pc[t] = "lib_map"
    /\ \E o \in MapOutcomes(layout[t].size) :
        /\ fails' = fails + o.inj
        /\ calls' = [calls EXCEPT ![t] =
                        Append(@, Call("map", o.ptr, layout[t].size, o.errno))]
        /\ IF o.errno # ""
           THEN /\ res' = [res EXCEPT ![t] = ErrOs(o.errno)]
                /\ pc' = [pc EXCEPT ![t] = "lib_alloc_done"]
                /\ UNCHANGED <<mapped, ptr>>
           ELSE /\ mapped' = mapped \cup PagesOf(o.ptr, layout[t].size)
                /\ ptr' = [ptr EXCEPT ![t] = o.ptr]
                /\ IF is_aligned_to(o.ptr, layout[t].align)
                   THEN /\ res' = [res EXCEPT ![t] = OkMem(o.ptr, layout[t])]
                        /\ pc' = [pc EXCEPT ![t] = "lib_alloc_done"]
                   ELSE /\ res' = res
                        /\ pc' = [pc EXCEPT ![t] = "lib_unmap"]
    /\ UNCHANGED <<req, layout, alloc_size, align_ost, trim_end, mem, before>>
    /\ UNCHANGED zvars

\* lib.rs alloc, lines 138-147: munmap of the first mapping, then the
\* padded size.
LibAllocUnmap(t) ==
    /\ pc[t] = "lib_unmap"
    /\ IF ~MunmapAsserts(ptr[t])
       THEN /\ pc' = [pc EXCEPT ![t] = "panic"]
            /\ UNCHANGED <<mapped, fails, calls, res, alloc_size>>
       ELSE \E o \in UnmapOutcomes(ptr[t], layout[t].size) :
            /\ fails' = fails + o.inj
            /\ calls' = [calls EXCEPT ![t] =
                   Append(@, Call("unmap", ptr[t], layout[t].size, o.errno))]
            /\ IF o.errno # ""
               THEN /\ res' = [res EXCEPT ![t] = ErrOs(o.errno)]
                    /\ pc' = [pc EXCEPT ![t] = "lib_alloc_done"]
                    /\ UNCHANGED <<mapped, alloc_size>>
               ELSE /\ mapped' = Unmapped(mapped, ptr[t], layout[t].size)
                    /\ LET pad == checked_sub(layout[t].align, PageSize)
                           size == IF pad < 0 THEN -1
                                   ELSE checked_add(layout[t].size, pad)
                       IN IF pad < 0
                          THEN /\ pc' = [pc EXCEPT ![t] = "panic"]
                               /\ UNCHANGED <<res, alloc_size>>
                          ELSE IF size < 0
                          THEN /\ res' = [res EXCEPT ![t] = ErrKind("Overflow")]
                               /\ pc' = [pc EXCEPT ![t] = "lib_alloc_done"]
                               /\ UNCHANGED alloc_size
                          ELSE /\ alloc_size' = [alloc_size EXCEPT ![t] = size]
                               /\ pc' = [pc EXCEPT ![t] = "lib_slow_map"]
                               /\ UNCHANGED res
    /\ UNCHANGED <<req, layout, ptr, align_ost, trim_end, mem, before>>
    /\ UNCHANGED zvars

\* lib.rs trim, lines 114-127: what follows the leading slack.
LibAfterLead(t, p, te) ==
    IF te > 0
    THEN /\ pc' = [pc EXCEPT ![t] = "lib_trim_end"]
         /\ UNCHANGED res
    ELSE /\ pc' = [pc EXCEPT ![t] = "lib_alloc_done"]
         /\ res' = [res EXCEPT ![t] = OkMem(p, layout[t])]

\* lib.rs alloc, line 148, then trim, lines 95-114: the padded mmap and
\* the offsets of the aligned block.
LibAllocSlow(t) ==
    /\ pc[t] = "lib_slow_map"
    /\ \E o \in MapOutcomes(alloc_size[t]) :
        /\ fails' = fails + o.inj
        /\ calls' = [calls EXCEPT ![t] =
                        Append(@, Call("map", o.ptr, alloc_size[t], o.errno))]
        /\ IF o.errno # ""
           THEN /\ res' = [res EXCEPT ![t] = ErrOs(o.errno)]
                /\ pc' = [pc EXCEPT ![t] = "lib_alloc_done"]
                /\ UNCHANGED <<mapped, ptr, align_ost, trim_end>>
           ELSE /\ mapped' = mapped \cup PagesOf(o.ptr, alloc_size[t])
                /\ ptr' = [ptr EXCEPT ![t] = o.ptr]
                /\ LET ao == align_offset(o.ptr, layout[t].align)
                       d  == checked_sub(alloc_size[t], ao)
                       te == IF d < 0 THEN -1 ELSE checked_sub(d, layout[t].size)
                   IN IF te < 0
                      THEN /\ res' = [res EXCEPT ![t] = ErrKind("NoAlign")]
                           /\ pc' = [pc EXCEPT ![t] = "lib_alloc_done"]
                           /\ UNCHANGED <<align_ost, trim_end>>
                      ELSE /\ align_ost' = [align_ost EXCEPT ![t] = ao]
                           /\ trim_end' = [trim_end EXCEPT ![t] = te]
                           /\ IF ao > 0
                              THEN /\ pc' = [pc EXCEPT ![t] = "lib_trim_lead"]
                                   /\ UNCHANGED res
                              ELSE LibAfterLead(t, o.ptr + ao, te)
    /\ UNCHANGED <<req, layout, alloc_size, mem, before>>
    /\ UNCHANGED zvars

\* lib.rs trim, lines 114-116: munmap of the leading slack.
LibTrimLead(t) ==
    /\ pc[t] = "lib_trim_lead"
    /\ IF ~MunmapAsserts(ptr[t])
       THEN /\ pc' = [pc EXCEPT ![t] = "panic"]
            /\ UNCHANGED <<mapped, fails, calls, res>>
       ELSE \E o \in UnmapOutcomes(ptr[t], align_ost[t]) :
            /\ fails' = fails + o.inj
            /\ calls' = [calls EXCEPT ![t] =
                   Append(@, Call("unmap", ptr[t], align_ost[t], o.errno))]
            /\ IF o.errno # ""
               THEN /\ res' = [res EXCEPT ![t] = ErrOs(o.errno)]
                    /\ pc' = [pc EXCEPT ![t] = "lib_alloc_done"]
                    /\ UNCHANGED mapped
               ELSE /\ mapped' = Unmapped(mapped, ptr[t], align_ost[t])
                    /\ LibAfterLead(t, ptr[t] + align_ost[t], trim_end[t])
    /\ UNCHANGED <<req, layout, ptr, alloc_size, align_ost, trim_end, mem, before>>
    /\ UNCHANGED zvars

\* lib.rs trim, lines 117-127: munmap of the trailing slack; `end` is
\* aligned + layout.size(), which the assertion of munmap tests.
LibTrimTail(t) ==
    /\ pc[t] = "lib_trim_end"
    /\ IF ~MunmapAsserts(TrimEndPtr(t))
       THEN /\ pc' = [pc EXCEPT ![t] = "panic"]
            /\ UNCHANGED <<mapped, fails, calls, res>>
       ELSE \E o \in UnmapOutcomes(TrimEndPtr(t), trim_end[t]) :
            /\ fails' = fails + o.inj
            /\ calls' = [calls EXCEPT ![t] =
                   Append(@, Call("unmap", TrimEndPtr(t), trim_end[t], o.errno))]
            /\ IF o.errno # ""
               THEN /\ res' = [res EXCEPT ![t] = ErrOs(o.errno)]
                    /\ UNCHANGED mapped
               ELSE /\ res' = [res EXCEPT ![t] =
                                  OkMem(ptr[t] + align_ost[t], layout[t])]
                    /\ mapped' = Unmapped(mapped, TrimEndPtr(t), trim_end[t])
            /\ pc' = [pc EXCEPT ![t] = "lib_alloc_done"]
    /\ UNCHANGED <<req, layout, ptr, alloc_size, align_ost, trim_end, mem, before>>
    /\ UNCHANGED zvars

\* The caller of lib.rs alloc got an Err.
LibAllocFailed(t) ==
    /\ pc[t] = "lib_alloc_done"
    /\ res[t].kind # "Ok"
    /\ Reset(t)
    /\ UNCHANGED <<mapped, fails>>
    /\ UNCHANGED zvars

\* The caller passes the Mem it got from lib.rs alloc to free.
LibFree(t) ==
    /\ pc[t] = "lib_alloc_done"
    /\ res[t].kind = "Ok"
    /\ mem' = [mem EXCEPT ![t] = Mem(res[t].ptr, res[t].layout)]
    /\ calls' = [calls EXCEPT ![t] = <<>>]
    /\ pc' = [pc EXCEPT ![t] = "lib_free"]
    /\ UNCHANGED <<mapped, fails, req, layout, ptr, alloc_size, align_ost,
                   trim_end, res, before>>
    /\ UNCHANGED zvars

\* lib.rs free, line 156: munmap(m.ptr, m.layout.size()).
LibFreeUnmap(t) ==
    /\ pc[t] = "lib_free"
    /\ IF ~MunmapAsserts(mem[t].ptr)
       THEN /\ pc' = [pc EXCEPT ![t] = "panic"]
            /\ UNCHANGED <<mapped, fails, calls, res>>
       ELSE \E o \in UnmapOutcomes(mem[t].ptr, mem[t].layout.size) :
            /\ fails' = fails + o.inj
            /\ calls' = [calls EXCEPT ![t] =
                   Append(@, Call("unmap", mem[t].ptr, mem[t].layout.size, o.errno))]
            /\ IF o.errno # ""
               THEN /\ res' = [res EXCEPT ![t] = ErrOs(o.errno)]
                    /\ UNCHANGED mapped
               ELSE /\ res' = [res EXCEPT ![t] = OkUnit]
                    /\ mapped' = Unmapped(mapped, mem[t].ptr, mem[t].layout.size)
            /\ pc' = [pc EXCEPT ![t] = "lib_free_done"]
    /\ UNCHANGED <<req, layout, ptr, alloc_size, align_ost, trim_end, mem, before>>
    /\ UNCHANGED zvars

\* lib.rs free has returned.
LibFreeDone(t) ==
    /\ pc[t] = "lib_free_done"
    /\ Reset(t)
    /\ UNCHANGED <<mapped, fails>>
    /\ UNCHANGED zvars

\* One step of thread t in the Mmap of lib.rs.
LibStep(t) ==
    \/ \E l \in Layouts : LibAlloc(t, l)
    \/ LibAllocMap(t)
    \/ LibAllocUnmap(t)
    \/ LibAllocSlow(t)
    \/ LibTrimLead(t)
    \/ LibTrimTail(t)
    \/ LibAllocFailed(t)
    \/ LibFree(t)
    \/ LibFreeUnmap(t)
    \/ LibFreeDone(t)

\* One caller using the Mmap of lib.rs.
NextLib == \E t \in {1} : LibStep(t)

SpecLib == Init /\ [][NextLib]_vars

\* ------------------------------------------------------------- ZeroHeap
\* Layouts the client of ZeroHeap asks for.
ZLayouts == {l \in Layouts : l.size <= MaxZSize}

\* What the wrapped allocator's alloc can return for a layout (trait Alloc):
\* a Tag aligned to the layout, or AllocError.
InnerAlloc(l) ==
    {ZRes("Ok", Tag(k * l.align, l)) : k \in 1 .. MaxSlot} \cup {ZRes("Err", NoTag)}

\* ZeroHeap::alloc
ZeroHeapAlloc(l) ==
    /\ Len(ztags) < MaxTags
    /\ zop' = ZCall("alloc", l, 0)
    /\ IF l.size = 0
       THEN /\ zres' = ZRes("Ok", Tag(dangling(l), l))
            /\ zcalls' = <<>>
            /\ zinner' = ZRes("None", NoTag)
       ELSE /\ zinner' \in InnerAlloc(l)
            /\ zres' = zinner'
            /\ zcalls' = <<ZCall("alloc", l, 0)>>
    /\ ztags' = IF zres'.kind = "Ok"
                THEN Append(ztags, Tag(zres'.ptr, zres'.layout))
                ELSE ztags
    /\ UNCHANGED mvars

\* Mutant of ZeroHeapFree: returns without calling the wrapped free.
ZeroHeapFree_skip(i) ==
    /\ i \in 1 .. Len(ztags)
    /\ zop' = ZCall("free", ztags[i].layout, ztags[i].ptr)
    /\ zcalls' = <<>>
    /\ zinner' = ZRes("None", NoTag)
    /\ zres' = ZRes("Unit", NoTag)
    /\ ztags' = [j \in 1 .. (Len(ztags) - 1) |->
                    IF j < i THEN ztags[j] ELSE ztags[j + 1]]
    /\ UNCHANGED mvars

\* ZeroHeap::free; `layout` on line 59 is the layout of `tag`.
ZeroHeapFree(i) ==
    /\ i \in 1 .. Len(ztags)
    /\ LET tag == ztags[i]
       IN /\ zop' = ZCall("free", tag.layout, tag.ptr)
          /\ zcalls' = IF tag.layout.size # 0
                       THEN <<ZCall("free", tag.layout, tag.ptr)>>
                       ELSE <<>>
          /\ zinner' = IF tag.layout.size # 0
                       THEN ZRes("Unit", NoTag)
                       ELSE ZRes("None", NoTag)
    /\ zres' = ZRes("Unit", NoTag)
    /\ ztags' = [j \in 1 .. (Len(ztags) - 1) |->
                    IF j < i THEN ztags[j] ELSE ztags[j + 1]]
    /\ UNCHANGED mvars

\* A client of ZeroHeap<T>: allocs, and frees of the Tags it holds.
NextZero ==
    \/ \E l \in ZLayouts : ZeroHeapAlloc(l)
    \/ \E i \in 1 .. MaxTags : ZeroHeapFree(i)

SpecZero == Init /\ [][NextZero]_vars

\* =============================================================== claims
\* alloc has returned to thread t / has returned Ok(Mem).
AllocReturned(t) == pc[t] = "alloc_done"
AllocOk(t) == pc[t] = "alloc_done" /\ res[t].kind = "Ok"
\* free has returned Ok(()) to thread t.
FreeOk(t) == pc[t] = "free_done" /\ res[t].kind = "Unit"
\* The successful alloc of thread t went through alloc_slow.
SlowOk(t) == AllocOk(t) /\ Len(calls[t]) >= 3
\* Byte b is mapped.
ByteMapped(b) == (b \div PageSize) \in mapped

\* C1: a successful alloc(S) returns an address that is a multiple of
\* S.align, and the S.size bytes from that address are all mapped.
C1_AllocAlignedAndMapped ==
    \A t \in Threads :
        AllocOk(t) =>
            /\ res[t].ptr % req[t].align = 0
            /\ \A b \in res[t].ptr .. (res[t].ptr + req[t].size - 1) : ByteMapped(b)

\* C1 witness: a block with an alignment above the page size and a size
\* that is no multiple of it, cut out of a padded mapping with slack on
\* both sides.
C1_Witness ==
    \E t \in Threads :
        /\ SlowOk(t)
        /\ req[t].align > PageSize
        /\ req[t].size % req[t].align # 0
        /\ Len(calls[t]) = 5

\* C2: after a successful alloc and a successful free of its block, the
\* mapping table is what it was when alloc was entered.
C2_FreeLeavesNoMapping ==
    \A t \in Threads : FreeOk(t) => mapped = before[t]

\* C2 witness: a slow-path block with leading and trailing slack has been
\* freed, with an older mapping still in the table.
C2_Witness ==
    \E t \in Threads :
        /\ FreeOk(t)
        /\ align_ost[t] > 0
        /\ trim_end[t] > 0
        /\ before[t] # {}

\* C3 (as claimed): when alloc returns an error, every page this call
\* mapped is unmapped again.
C3_FailedAllocLeavesNothing ==
    \A t \in Threads :
        (AllocReturned(t) /\ res[t].kind # "Ok") => mapped = before[t]

\* C4: a zero-size alloc through ZeroHeap makes no call to the wrapped
\* allocator and returns Ok with a Tag of the requested layout at a non-null
\* multiple of its alignment; a free of a zero-size Tag makes no call either.
C4_ZeroSizeNeverReachesInner ==
    /\ (zop.fn = "alloc" /\ zop.layout.size = 0) =>
          /\ zcalls = <<>>
          /\ zres.kind = "Ok"
          /\ zres.ptr > 0
          /\ zres.ptr % zop.layout.align = 0
          /\ zres.layout = zop.layout
    /\ (zop.fn = "free" /\ zop.layout.size = 0) => zcalls = <<>>

\* C4 witness: a zero-size Tag with an alignment above 1 has been
\* allocated and then freed.
C4_Witness ==
    /\ zop.fn = "free"
    /\ zop.layout.size = 0
    /\ zop.layout.align > 1
    /\ zop.ptr = zop.layout.align

\* Bytes released by the unmap calls of trim: the calls after the padded map.
Slack(t) ==
    (IF Len(calls[t]) >= 4 THEN calls[t][4].len ELSE 0)
    + (IF Len(calls[t]) >= 5 THEN calls[t][5].len ELSE 0)

\* C5 (as claimed): on a successful slow path the slack released equals the
\* length of the padded map minus the size the caller requested.
C5_SlackIsPaddedMinusRequested ==
    \A t \in Threads :
        (SlowOk(t) /\ req[t].align > PageSize) =>
            Slack(t) = calls[t][3].len - req[t].size

\* C5 (amended): on a successful slow path the slack released equals the
\* length of the padded map minus the normalized size, that is
\* normalized.align - pagesize.
C5_SlackIsPaddedMinusNormalized ==
    \A t \in Threads :
        SlowOk(t) =>
            /\ Slack(t) = calls[t][3].len - layout[t].size
            /\ Slack(t) = layout[t].align - PageSize

\* C5 witness: a successful slow path whose requested size is below the
\* normalized size, with slack on both sides.
C5_Witness ==
    \E t \in Threads :
        /\ SlowOk(t)
        /\ req[t].size < layout[t].size
        /\ Len(calls[t]) = 5
        /\ calls[t][4].len > 0
        /\ calls[t][5].len > 0

\* The three OS calls every successful slow path starts with: the map of
\* the normalized size, the unmap of all of it, the padded map.
SlowPrefix(t) ==
    LET c == calls[t] l == layout[t]
    IN /\ c[1] = Call("map", c[1].ptr, l.size, "")
       /\ c[2] = Call("unmap", c[1].ptr, l.size, "")
       /\ c[3] = Call("map", c[3].ptr, l.size + l.align - PageSize, "")

\* C7 (as claimed): a successful slow path makes exactly five OS calls: map,
\* unmap of the first mapping, padded map, unmap of the leading slack,
\* unmap of the trailing slack; the block is aligned.
C7_SlowPathFiveCalls ==
    \A t \in Threads :
        (AllocOk(t) /\ Len(calls[t]) >= 2) =>
            LET c == calls[t] l == layout[t] r == res[t].ptr
            IN /\ Len(c) = 5
               /\ SlowPrefix(t)
               /\ c[4] = Call("unmap", c[3].ptr, r - c[3].ptr, "")
               /\ c[5] = Call("unmap", r + l.size,
                              c[3].ptr + c[3].len - (r + l.size), "")
               /\ r % l.align = 0

\* C7 (amended): a successful slow path makes map, unmap of the first
\* mapping, padded map, then the unmap of the leading slack when it is not
\* empty, then the unmap of the trailing slack when it is not empty: one or
\* two trim unmaps; the block is aligned.
C7_SlowPathCallOrder ==
    \A t \in Threads :
        (AllocOk(t) /\ Len(calls[t]) >= 2) =>
            LET c == calls[t] l == layout[t] r == res[t].ptr
                lead == r - c[3].ptr
                tail == c[3].ptr + c[3].len - (r + l.size)
            IN /\ Len(c) >= 3
               /\ SlowPrefix(t)
               /\ lead >= 0 /\ tail >= 0
               /\ SubSeq(c, 4, Len(c)) =
                    (IF lead > 0 THEN <<Call("unmap", c[3].ptr, lead, "")>> ELSE <<>>)
                    \o (IF tail > 0 THEN <<Call("unmap", r + l.size, tail, "")>>
                        ELSE <<>>)
               /\ Len(c) \in {4, 5}
               /\ r % l.align = 0

\* C7 witness: a successful slow path whose padded mapping started on an
\* aligned address, so that only the trailing slack was unmapped.
C7_Witness ==
    \E t \in Threads :
        /\ SlowOk(t)
        /\ Len(calls[t]) = 4
        /\ calls[t][3].ptr = res[t].ptr
        /\ calls[t][4].ptr = res[t].ptr + layout[t].size

\* Thread t is in an alloc or free of a request with align <= pagesize.
FastReq(t) == pc[t] # "idle" /\ req[t].align <= PageSize

\* C8: a request with align <= pagesize normalizes to the page size, never
\* enters the slow path, succeeds with exactly one map and no unmap, and
\* its free makes exactly one unmap of the whole mapping.
C8_FastPath ==
    \A t \in Threads :
        FastReq(t) =>
            /\ res[t].kind # "Layout" => layout[t].align = PageSize
            /\ pc[t] \notin {"unmap", "slow_map", "trim_lead", "trim_end"}
            /\ AllocOk(t) =>
                  calls[t] = <<Call("map", res[t].ptr, layout[t].size, "")>>
            /\ FreeOk(t) =>
                  /\ calls[t] = <<Call("unmap", ptr[t], layout[t].size, "")>>
                  /\ mem[t] = Mem(ptr[t], layout[t])

\* C8 witness: a block requested with an alignment below the page size has
\* been allocated and freed.
C8_Witness ==
    \E t \in Threads :
        /\ FreeOk(t)
        /\ req[t].align < PageSize
        /\ req[t].size > PageSize

\* C9 (as claimed): for a zero-byte shape every length passed to map is
\* greater than zero and a multiple of the page size.
C9_ZeroShapeMapsNonEmpty ==
    \A t \in Threads :
        \A i \in 1 .. Len(calls[t]) :
            (req[t].size = 0 /\ pc[t] # "idle" /\ calls[t][i].op = "map") =>
                (calls[t][i].len > 0 /\ calls[t][i].len % PageSize = 0)

\* C9 (amended): for a zero-byte shape normalization keeps the size at zero:
\* the one length passed to map is 0 (a multiple of the page size, but
\* empty), the OS refuses it with EINVAL and alloc returns that Os failure.
C9_ZeroShapeMapsEmpty ==
    \A t \in Threads :
        (req[t].size = 0 /\ pc[t] \in {"map", "alloc_done"}) =>
            /\ layout[t].size = 0
            /\ layout[t].size % PageSize = 0
            /\ AllocReturned(t) =>
                  /\ calls[t] = <<Call("map", 0, 0, "EINVAL")>>
                  /\ res[t].kind = "Os"
                  /\ res[t].errno = "EINVAL"

\* C9 witness: alloc has returned for a zero-byte shape whose alignment is
\* above the page size.
C9_Witness ==
    \E t \in Threads :
        /\ AllocReturned(t)
        /\ req[t].size = 0
        /\ req[t].align > PageSize
        /\ Len(calls[t]) = 1

\* C10: an OS call that returned an error is the last OS call of its
\* operation, and the operation has returned the Os failure with that errno.
C10_OsFailureSurfaced ==
    \A t \in Threads :
        \A i \in 1 .. Len(calls[t]) :
            calls[t][i].errno # "" =>
                /\ i = Len(calls[t])
                /\ pc[t] \in {"alloc_done", "free_done"}
                /\ res[t].kind = "Os"
                /\ res[t].errno = calls[t][i].errno

\* C10 witness: the unmap of the leading slack failed while trailing slack
\* was still to be released; alloc returned after that fourth call.
C10_Witness ==
    \E t \in Threads :
        /\ AllocReturned(t)
        /\ Len(calls[t]) = 4
        /\ calls[t][4].errno = "ENOMEM"
        /\ align_ost[t] > 0
        /\ trim_end[t] > 0

\* Normalization of request l fails: l.size rounded up to the alignment
\* raised to the page size exceeds isize::MAX.
NormalizationFails(l) ==
    LET a == IF l.align > PageSize THEN l.align ELSE PageSize
    IN \A n \in 0 .. IsizeMax : ~(n >= l.size /\ n % a = 0)

\* C11: when normalization of the requested layout fails, alloc returns a
\* failure of kind Layout having made no map and no unmap call, and the
\* mapping table is untouched.
C11_InvalidShapeNoOsCall ==
    \A t \in Threads :
        (pc[t] # "idle" /\ NormalizationFails(req[t])) =>
            /\ pc[t] = "alloc_done"
            /\ res[t].kind = "Layout"
            /\ calls[t] = <<>>
            /\ mapped = before[t]

\* C11 witness: alloc has returned the Layout failure for a valid request
\* whose alignment is below the page size.
C11_Witness ==
    \E t \in Threads :
        /\ AllocReturned(t)
        /\ res[t].kind = "Layout"
        /\ req[t].align < PageSize
        /\ req[t].size = IsizeMax

\* C12 (as claimed): no alloc entry point panics on a request whose
\* alignment is below the page size; alloc goes on with the alignment
\* raised to the page size and the size rounded up to a multiple of it.
C12_NoPanicBelowPageSize ==
    \A t \in Threads :
        (pc[t] # "idle" /\ req[t].align < PageSize) =>
            /\ pc[t] # "panic"
            /\ ~NormalizationFails(req[t]) =>
                  /\ layout[t].align = PageSize
                  /\ layout[t].size >= req[t].size
                  /\ layout[t].size < req[t].size + PageSize
                  /\ layout[t].size % PageSize = 0


\* ------------------------------------------------------------------ C13
\* Pages of the block thread t holds: from the Ok return of alloc until
\* free issues its unmap.
Live(t) ==
    IF AllocOk(t) THEN PagesOf(res[t].ptr, res[t].layout.size)
    ELSE IF pc[t] = "free" THEN PagesOf(mem[t].ptr, mem[t].layout.size)
    ELSE {}

\* Pages of the range thread t's next step hands to unmap.
NextUnmap(t) ==
    CASE pc[t] = "unmap" -> PagesOf(ptr[t], layout[t].size)
      [] pc[t] = "trim_lead" -> PagesOf(ptr[t], align_ost[t])
      [] pc[t] = "trim_end" -> PagesOf(TrimEndPtr(t), trim_end[t])
      [] pc[t] = "free" -> PagesOf(mem[t].ptr, mem[t].layout.size)
      [] OTHER -> {}

\* C13: with threads interleaving their OS calls in any order, the live
\* blocks of two threads never share a byte, every live block stays mapped,
\* and no thread is about to unmap a byte of another thread's live block.
C13_ThreadsNeverOverlap ==
    \A t \in Threads : \A u \in Threads \ {t} :
        /\ Live(t) \cap Live(u) = {}
        /\ Live(t) \subseteq mapped
        /\ NextUnmap(t) \cap Live(u) = {}

\* Thread t is between its slow-path unmap and its padded map, and thread u
\* already holds a live block on pages t has just released.
C13_Witness ==
    \E t \in Threads : \E u \in Threads \ {t} :
        /\ pc[t] = "slow_map"
        /\ Live(u) # {}
        /\ Live(u) \cap PagesOf(ptr[t], layout[t].size) # {}


\* ------------------------------------------------------------------ C14
\* The (pointer, length) pair thread t's next step passes to Mmap::unmap.
UnmapArgs(t) ==
    CASE pc[t] = "unmap" -> <<ptr[t], layout[t].size>>
      [] pc[t] = "trim_lead" -> <<ptr[t], align_ost[t]>>
      [] pc[t] = "trim_end" -> <<ptr[t] + align_ost[t] + layout[t].size, trim_end[t]>>
      [] pc[t] = "free" -> <<mem[t].ptr, mem[t].layout.size>>
      [] OTHER -> <<0, 0>>

\* C14: every unmap call of the page allocator (in alloc, for the leading
\* and the trailing slack in trim, and in free of a block alloc returned)
\* is made with a pointer and a length that are multiples of the page size,
\* so neither assertion of Mmap::unmap fails.
C14_UnmapPreconditions ==
    \A t \in Threads :
        /\ UnmapArgs(t)[1] % PageSize = 0
        /\ UnmapArgs(t)[2] % PageSize = 0
        /\ pc[t] # "panic"
        /\ \A i \in 1 .. Len(calls[t]) :
              calls[t][i].op = "unmap" =>
                  /\ calls[t][i].ptr % PageSize = 0
                  /\ calls[t][i].len % PageSize = 0

\* A slow-path alloc of a request smaller than a page has made all three of
\* its unmap calls: the first mapping, the leading and the trailing slack.
C14_Witness ==
    \E t \in Threads :
        /\ AllocOk(t)
        /\ req[t].size % PageSize # 0
        /\ Len(calls[t]) = 5
        /\ \A i \in {2, 4, 5} : calls[t][i].op = "unmap" /\ calls[t][i].errno = ""


\* ------------------------------------------------------------------ C15
\* The padded map of thread t's slow path has returned an address.
PaddedMapped(t) ==
    /\ pc[t] \in {"trim_lead", "trim_end", "alloc_done"}
    /\ Len(calls[t]) >= 3
    /\ calls[t][3].op = "map"
    /\ calls[t][3].errno = ""

\* Distance from address p up to the first multiple of a.
UpTo(p, a) == CHOOSE d \in 0 .. a - 1 : (p + d) % a = 0

\* C15: wherever the padded map of length size + (align - pagesize) lands,
\* the first aligned address is at most align - pagesize bytes in, so trim
\* never returns NoAlign and align_ost + layout.size() <= alloc_size.
C15_PaddedRegionLargeEnough ==
    \A t \in Threads :
        /\ res[t].kind # "NoAlign"
        /\ PaddedMapped(t) =>
              /\ calls[t][3].len = layout[t].size + (layout[t].align - PageSize)
              /\ calls[t][3].ptr % PageSize = 0
              /\ UpTo(calls[t][3].ptr, layout[t].align)
                    <= layout[t].align - PageSize
              /\ align_ost[t] = UpTo(calls[t][3].ptr, layout[t].align)
              /\ align_ost[t] + layout[t].size <= alloc_size[t]

\* The padded map landed as far from an aligned address as a page-aligned
\* address can be: the whole padding is leading slack, none is trailing.
C15_Witness ==
    \E t \in Threads :
        /\ PaddedMapped(t)
        /\ layout[t].align > PageSize
        /\ align_ost[t] = layout[t].align - PageSize
        /\ trim_end[t] = 0


\* ------------------------------------------------------------------ C16
\* The bytes of the range [p, p + len).
Bytes(p, len) == p .. (p + len - 1)

\* The ranges of trim for thread t: the padded mapping, the leading slack,
\* the retained block and the trailing slack.
Region(t) == Bytes(calls[t][3].ptr, calls[t][3].len)
LeadSlack(t) == Bytes(calls[t][3].ptr, align_ost[t])
Retained(t) == Bytes(calls[t][3].ptr + align_ost[t], layout[t].size)
TailSlack(t) ==
    Bytes(calls[t][3].ptr + align_ost[t] + layout[t].size, trim_end[t])

\* C16: in trim the leading slack and the trailing slack lie inside the
\* padded mapping, are disjoint from each other and from the retained
\* block, and the three ranges together are the padded mapping; the unmap
\* calls trim makes are for exactly these two slack ranges.
C16_TrimRangesPartition ==
    \A t \in Threads : PaddedMapped(t) =>
        /\ LeadSlack(t) \subseteq Region(t)
        /\ TailSlack(t) \subseteq Region(t)
        /\ LeadSlack(t) \cap TailSlack(t) = {}
        /\ LeadSlack(t) \cap Retained(t) = {}
        /\ TailSlack(t) \cap Retained(t) = {}
        /\ LeadSlack(t) \cup Retained(t) \cup TailSlack(t) = Region(t)
        /\ \A i \in 4 .. Len(calls[t]) :
              /\ calls[t][i].op = "unmap"
              /\ calls[t][i].len > 0
              /\ Bytes(calls[t][i].ptr, calls[t][i].len)
                    \in {LeadSlack(t), TailSlack(t)}

\* Trim released slack on both sides of the retained block.
C16_Witness ==
    \E t \in Threads :
        /\ AllocOk(t) /\ PaddedMapped(t)
        /\ Len(calls[t]) = 5
        /\ LeadSlack(t) # {} /\ TailSlack(t) # {}
        /\ Bytes(calls[t][4].ptr, calls[t][4].len) = LeadSlack(t)
        /\ Bytes(calls[t][5].ptr, calls[t][5].len) = TailSlack(t)


\* ------------------------------------------------------------------ C17
\* C17: for a non-zero size ZeroHeap forwards unchanged: alloc makes exactly
\* one call to the wrapped alloc, with the same layout, and returns what it
\* returned (Tag or failure); free makes exactly one call to the wrapped
\* free, with the same Tag.
C17_NonZeroForwarded ==
    /\ (zop.fn = "alloc" /\ zop.layout.size # 0) =>
          /\ zcalls = <<ZCall("alloc", zop.layout, 0)>>
          /\ zinner.kind \in {"Ok", "Err"}
          /\ zres = zinner
    /\ (zop.fn = "free" /\ zop.layout.size # 0) =>
          /\ zcalls = <<ZCall("free", zop.layout, zop.ptr)>>
          /\ zinner.kind = "Unit"

\* A Tag of non-zero size, which the wrapped allocator returned, was handed
\* back through ZeroHeap::free.
C17_Witness ==
    /\ zop.fn = "free"
    /\ zop.layout.size # 0
    /\ zop.ptr > 0
    /\ Len(zcalls) = 1


\* ------------------------------------------------------------------ C18
\* C18: the Mem alloc returns carries the normalized layout (alignment
\* raised to the page size, size rounded up to it), and its size is the
\* number of bytes alloc left mapped, all of them at the returned pointer;
\* free is passed that Mem and unmaps exactly those bytes.
C18_MemSizeIsWhatStaysMapped ==
    \A t \in Threads :
        /\ AllocOk(t) =>
              /\ res[t].layout.align = Max(req[t].align, PageSize)
              /\ res[t].layout.size % res[t].layout.align = 0
              /\ res[t].layout.size >= req[t].size
              /\ res[t].layout.size < req[t].size + res[t].layout.align
              /\ mapped \ before[t] = PagesOf(res[t].ptr, res[t].layout.size)
              /\ Cardinality(mapped \ before[t]) * PageSize = res[t].layout.size
        /\ pc[t] = "free" =>
              /\ mem[t] = Mem(res[t].ptr, res[t].layout)
              /\ mapped \ before[t] = PagesOf(mem[t].ptr, mem[t].layout.size)
        /\ FreeOk(t) =>
              /\ calls[t] = <<Call("unmap", mem[t].ptr, mem[t].layout.size, "")>>
              /\ mapped = before[t]

\* A block cut from the middle of a padded mapping, with slack released on
\* both sides, has been freed.
C18_Witness ==
    \E t \in Threads :
        /\ FreeOk(t)
        /\ align_ost[t] > 0
        /\ trim_end[t] > 0
        /\ mem[t].ptr = ptr[t] + align_ost[t]


\* ------------------------------------------------------------------ C19
\* C19: for the normalized layout the pad of alloc_slow, align - pagesize,
\* is never negative (unwrap does not panic) and size + pad never exceeds
\* the pointer width (it is at most isize::MAX + 1 - pagesize), so alloc
\* never returns MmapErr::Overflow.
C19_PadNeverOverflows ==
    \A t \in Threads :
        /\ res[t].kind # "Overflow"
        /\ pc[t] = "unmap" =>
              /\ layout[t].align - PageSize >= 0
              /\ layout[t].size + (layout[t].align - PageSize) < UsizeMod
        /\ pc[t] = "slow_map" =>
              /\ alloc_size[t] = layout[t].size + (layout[t].align - PageSize)
              /\ alloc_size[t] <= IsizeMax + 1 - PageSize
        /\ (pc[t] = "alloc_done" /\ Len(calls[t]) = 2) => res[t].kind = "Os"

\* The slow path is about to map the largest padded size a layout allows.
C19_Witness ==
    \E t \in Threads :
        /\ pc[t] = "slow_map"
        /\ alloc_size[t] = IsizeMax + 1 - PageSize

====
